---- MODULE Spec2Model ----
(***************************************************************************)
(* Model of the Netpbm viewer in src/src/main.rs: the header tokenizer     *)
(* (read_ppm_header), the ASCII and binary data decoders, the decoder      *)
(* selection in main and the draw-once presentation loop (World::draw).    *)
(* A file is a sequence of bytes (0..255); offsets are 0-based as in the   *)
(* code, sequence indexes are 1-based.                                     *)
(***************************************************************************)
EXTENDS Integers, Sequences, FiniteSets, TLC

\* ------------------------------------------------------------------ bytes
\* The four bytes the tokenizer tests for (main.rs:217, 231, 235, 239).
LF == 10
CR == 13
SPACE == 32
HASH == 35

I32_MAX == 2147483647
I32_MIN == (0 - 2147483647) - 1

IsDigit(b) == b >= 48 /\ b =< 57

RECURSIVE ParseDigits(_, _, _)
\* Accumulates decimal digits as str::parse::<i32> does: any non-digit or an
\* overflow of i32 is an error, reported as <<FALSE, 0>>.  neg selects the
\* accumulation towards I32_MIN (a leading '-').
ParseDigits(s, acc, neg) ==
    IF s = <<>> THEN <<TRUE, acc>>
    ELSE IF ~IsDigit(Head(s)) THEN <<FALSE, 0>>
    ELSE LET d == Head(s) - 48 IN
         IF neg
         THEN IF acc < (I32_MIN + d) \div 10 + (IF (I32_MIN + d) % 10 = 0 THEN 0 ELSE 1)
              THEN <<FALSE, 0>>
              ELSE ParseDigits(Tail(s), acc * 10 - d, neg)
         ELSE IF acc > (I32_MAX - d) \div 10
              THEN <<FALSE, 0>>
              ELSE ParseDigits(Tail(s), acc * 10 + d, neg)

\* str::parse::<i32>: an optional sign, then one or more digits, nothing else.
\* Returns <<ok, value>>.
ParseI32(s) ==
    IF s = <<>> THEN <<FALSE, 0>>
    ELSE IF Head(s) = 43 \/ Head(s) = 45
         THEN IF Tail(s) = <<>> THEN <<FALSE, 0>>
              ELSE ParseDigits(Tail(s), 0, Head(s) = 45)
         ELSE ParseDigits(s, 0, FALSE)

\* .parse::<i32>().unwrap_or_default()
ParseOrDefault(s) == IF ParseI32(s)[1] THEN ParseI32(s)[2] ELSE 0

\* ------------------------------------------------------------ format tag
ppm_type_of(magic) ==
    IF magic = <<80, 49>> THEN "P1"
    ELSE IF magic = <<80, 50>> THEN "P2"
    ELSE IF magic = <<80, 51>> THEN "P3"
    ELSE IF magic = <<80, 52>> THEN "P4"
    ELSE IF magic = <<80, 53>> THEN "P5"
    ELSE IF magic = <<80, 54>> THEN "P6"
    ELSE "P0"

PPMHeader_new == [ppm_type |-> "P0", width |-> 0, height |-> 0, max_value |-> 0]

IsBitType(t) == t = "P1" \/ t = "P4"

\* The loop's exit test: every field the variant requires is nonzero.
HeaderComplete(h) ==
    h.width # 0 /\ h.height # 0 /\ (h.max_value # 0 \/ IsBitType(h.ppm_type))

IsSeparator(b) == b = LF \/ b = CR \/ b = SPACE

\* The first byte of a token round is kept unless it is one of these four; a
\* byte that is not kept is not counted into byte_position either.
IsSkippedFirst(b) == b = LF \/ b = SPACE \/ b = HASH \/ b = CR

\* The field a completed token is stored into: the first one still zero.
AssignToken(h, v) ==
    IF h.width = 0 THEN [h EXCEPT !.width = v]
    ELSE IF h.height = 0 THEN [h EXCEPT !.height = v]
    ELSE IF h.max_value = 0 /\ ~IsBitType(h.ppm_type) THEN [h EXCEPT !.max_value = v]
    ELSE h

RECURSIVE SkipComment(_, _, _)
\* The comment loop: st = [pos, bp]; pos is the number of bytes read so far.
\* Reads until '#', CR or LF (inclusive) or end of stream.
SkipComment(f, pos, bp) ==
    IF pos >= Len(f) THEN [pos |-> pos, bp |-> bp]
    ELSE IF f[pos + 1] = HASH \/ f[pos + 1] = CR \/ f[pos + 1] = LF
         THEN [pos |-> pos + 1, bp |-> bp + 1]
         ELSE SkipComment(f, pos + 1, bp + 1)

RECURSIVE ReadToken(_, _, _, _)
\* The inner loop "read until whitespace": accumulates number_byte.
ReadToken(f, pos, bp, nb) ==
    IF pos >= Len(f) THEN [pos |-> pos, bp |-> bp, nb |-> nb]
    ELSE LET b == f[pos + 1] IN
         IF IsSeparator(b) THEN [pos |-> pos + 1, bp |-> bp + 1, nb |-> nb]
         ELSE IF b = HASH
              THEN LET c == SkipComment(f, pos + 1, bp + 1)
                   IN ReadToken(f, c.pos, c.bp, nb)
              ELSE ReadToken(f, pos + 1, bp + 1, Append(nb, b))

RECURSIVE HeaderLoop(_, _, _, _, _)
\* The outer loop of read_ppm_header.  toks records every completed
\* number_byte in order (the history of the tokens parsed).
HeaderLoop(f, pos, bp, h, toks) ==
    IF HeaderComplete(h)
    THEN [byte_position |-> bp + 1, header |-> h, tokens |-> toks]
    ELSE IF pos >= Len(f)
    THEN [byte_position |-> bp, header |-> h, tokens |-> toks]
    ELSE LET b == f[pos + 1]
             kept == ~IsSkippedFirst(b)
             t == ReadToken(f, pos + 1, IF kept THEN bp + 1 ELSE bp,
                            IF kept THEN <<b>> ELSE <<>>)
         IN HeaderLoop(f, t.pos, t.bp, AssignToken(h, ParseOrDefault(t.nb)),
                       Append(toks, t.nb))

\* read_ppm_header: read_exact of the two tag bytes fails (panics) on a file
\* shorter than two bytes.
read_ppm_header(f) ==
    IF Len(f) < 2
    THEN [panic |-> TRUE, byte_position |-> 0, header |-> PPMHeader_new, tokens |-> <<>>]
    ELSE LET r == HeaderLoop(f, 2, 2,
                             [PPMHeader_new EXCEPT !.ppm_type = ppm_type_of(SubSeq(f, 1, 2))],
                             <<>>)
         IN [panic |-> FALSE, byte_position |-> r.byte_position,
             header |-> r.header, tokens |-> r.tokens]

\* --------------------------------------------------- f32 sample scaling
\* The graymap paths compute ((val as f32 / max as f32) * 255.0) as i32.
\* The operators below carry out the two IEEE-754 single-precision
\* operations (24-bit significand, round to nearest, ties to even) and the
\* saturating, truncating cast on integers.  A positive f32 is <<m, e>> with
\* 2^23 <= m < 2^24 and value m * 2^e.  Operands are below 2^24 in magnitude
\* (every token and byte of the model is), so `as f32` is exact.
Abs(x) == IF x < 0 THEN 0 - x ELSE x

RoundHalfEven(q, r, d) ==
    IF 2 * r > d \/ (2 * r = d /\ q % 2 = 1) THEN q + 1 ELSE q

Renorm(m, e) == IF m = 16777216 THEN <<8388608, e + 1>> ELSE <<m, e>>

RECURSIVE ShiftUpTo(_, _, _)
\* The least s >= 0 with a * 2^s >= b, returned as <<a * 2^s, s>>.
ShiftUpTo(a, b, s) == IF a >= b THEN <<a, s>> ELSE ShiftUpTo(2 * a, b, s + 1)

RECURSIVE ShiftUnder(_, _, _)
\* The greatest s >= 0 with b * 2^s <= a, returned as <<b * 2^s, s>>.
ShiftUnder(b, a, s) == IF 2 * b > a THEN <<b, s>> ELSE ShiftUnder(2 * b, a, s + 1)

RECURSIVE DivBits(_, _, _, _)
\* Long division: n more quotient bits of r / b (r < b), appended to q.
DivBits(r, b, q, n) ==
    IF n = 0 THEN <<q, r>>
    ELSE IF 2 * r >= b THEN DivBits(2 * r - b, b, 2 * q + 1, n - 1)
         ELSE DivBits(2 * r, b, 2 * q, n - 1)

\* a / b in f32 for integers 0 < a, b < 2^24.
F32Div(a, b) ==
    LET an == ShiftUpTo(a, b, 0)
        bn == ShiftUnder(b, an[1], 0)
        qr == DivBits(an[1] - bn[1], bn[1], 1, 23)
    IN Renorm(RoundHalfEven(qr[1], qr[2], bn[1]), (bn[2] - an[2]) - 23)

\* <<m, e>> * 255.0 in f32.  m * 255 needs up to 32 bits, so it is formed as
\* 256 * hi + lo with hi = (m * 255) \div 256.
F32Mul255(x) ==
    LET m == x[1]
        e == x[2]
        h == m \div 256
        l == m % 256
        hi == 255 * h + (255 * l) \div 256
        lo == (255 * l) % 256
    IN IF hi >= 8388608
       THEN Renorm(RoundHalfEven(hi, lo, 256), e + 8)
       ELSE Renorm(RoundHalfEven(2 * hi + lo \div 128, lo % 128, 128), e + 7)

\* A positive f32 <<m, e>> truncated towards zero, saturating at I32_MAX.
F32Trunc(x) ==
    LET m == x[1]
        e == x[2]
    IN IF e >= 8 THEN I32_MAX
       ELSE IF e >= 0
            THEN (IF m > I32_MAX \div (2 ^ e) THEN I32_MAX ELSE m * (2 ^ e))
            ELSE IF 0 - e >= 24 THEN 0 ELSE m \div (2 ^ (0 - e))

\* ((val as f32 / max as f32) * 255.0) as i32.  Division by zero gives an
\* infinity (saturating cast) or, for 0/0, a NaN (cast to 0).
ScaleSample(val, max) ==
    IF max = 0
    THEN (IF val > 0 THEN I32_MAX ELSE IF val < 0 THEN I32_MIN ELSE 0)
    ELSE IF val = 0 THEN 0
    ELSE LET mag == F32Trunc(F32Mul255(F32Div(Abs(val), Abs(max))))
         IN IF (val < 0) = (max < 0) THEN mag ELSE 0 - mag

\* ------------------------------------------------------------- samples
PpmValue_new(red, green, blue) == [r |-> red, g |-> green, b |-> blue]

Gray(v) == PpmValue_new(v, v, v)

\* ---------------------------------------------------- ASCII data decoder
RECURSIVE SplitLines(_, _)
\* BufRead::lines: lines end at LF, a CR before the LF is dropped too, and a
\* last line without LF is still a line.  cur is the line being collected.
\* The text files of the model are ASCII, so no line fails UTF-8 decoding.
SplitLines(f, cur) ==
    IF f = <<>> THEN (IF cur = <<>> THEN <<>> ELSE <<cur>>)
    ELSE IF Head(f) = LF
         THEN <<IF cur # <<>> /\ cur[Len(cur)] = CR
                THEN SubSeq(cur, 1, Len(cur) - 1) ELSE cur>>
              \o SplitLines(Tail(f), <<>>)
         ELSE SplitLines(Tail(f), Append(cur, Head(f)))

RECURSIVE SplitOn(_, _, _)
\* str::split(sep): every piece between separators, empty pieces included.
SplitOn(s, sep, cur) ==
    IF s = <<>> THEN <<cur>>
    ELSE IF Head(s) = sep THEN <<cur>> \o SplitOn(Tail(s), sep, <<>>)
         ELSE SplitOn(Tail(s), sep, Append(cur, Head(s)))

\* char::is_whitespace on the ASCII range.
IsWhitespace(b) == b = SPACE \/ (b >= 9 /\ b =< 13)

RECURSIVE SplitWhitespace(_, _)
\* str::split_whitespace: the non-empty pieces between runs of whitespace.
SplitWhitespace(s, cur) ==
    IF s = <<>> THEN (IF cur = <<>> THEN <<>> ELSE <<cur>>)
    ELSE IF IsWhitespace(Head(s))
         THEN (IF cur = <<>> THEN <<>> ELSE <<cur>>) \o SplitWhitespace(Tail(s), <<>>)
         ELSE SplitWhitespace(Tail(s), Append(cur, Head(s)))

\* .map(|x| x.parse::<i32>().unwrap()).collect(): the pair <<ok, values>>;
\* ok is FALSE when some piece does not parse (the unwrap panics).
ParseAll(pieces) ==
    <<\A i \in 1..Len(pieces) : ParseI32(pieces[i])[1],
      [i \in 1..Len(pieces) |-> ParseI32(pieces[i])[2]]>>

RECURSIVE FindByte(_, _, _)
\* str::find(c).unwrap_or_default(): the 0-based index of the first c, 0 if none.
FindByte(s, c, i) ==
    IF i > Len(s) THEN 0 ELSE IF s[i] = c THEN i - 1 ELSE FindByte(s, c, i + 1)

\* The length of the data part of a line: up to the first '#' (a '#' at
\* index 0 and no '#' at all both give the whole line).
CommentOffset(va) == IF FindByte(va, HASH, 1) = 0 THEN Len(va) ELSE FindByte(va, HASH, 1)

\* The samples one data line contributes: <<ok, samples>>.
LineSamples(x, ppm_type, max_value) ==
    IF ppm_type = "P3"
    THEN (IF Len(x) < 3 THEN <<FALSE, <<>>>>
          ELSE <<TRUE, <<PpmValue_new(x[1], x[2], x[3])>>>>)
    ELSE IF ppm_type = "P2"
    THEN <<TRUE, [i \in 1..Len(x) |-> Gray(ScaleSample(x[i], max_value))]>>
    ELSE IF ppm_type = "P1"
    THEN <<TRUE, [i \in 1..Len(x) |-> Gray(IF x[i] = 0 THEN 0 ELSE 255)]>>
    ELSE <<TRUE, <<>>>>

\* One iteration of the line loop on line va.  dat is the decoder's own PPM
\* value with the flag skip_first_line and the flag panic added.
AsciiLine(dat, va) ==
    IF ~dat.skip_first_line THEN [dat EXCEPT !.skip_first_line = TRUE]
    ELSE IF va # <<>> /\ va[1] = HASH THEN dat
    ELSE IF dat.width = 0 /\ dat.height = 0
    THEN LET bar == ParseAll(SplitOn(va, SPACE, <<>>)) IN
         IF ~bar[1] \/ Len(bar[2]) < 2 THEN [dat EXCEPT !.panic = TRUE]
         ELSE [dat EXCEPT !.width = bar[2][1], !.height = bar[2][2]]
    ELSE IF dat.max_value = 0 /\ dat.ppm_type # "P1"
    THEN [dat EXCEPT !.max_value = ParseOrDefault(va)]
    ELSE LET x == ParseAll(SplitWhitespace(SubSeq(va, 1, CommentOffset(va)), <<>>))
             got == LineSamples(x[2], dat.ppm_type, dat.max_value)
         IN IF ~x[1] \/ ~got[1] THEN [dat EXCEPT !.panic = TRUE]
            ELSE [dat EXCEPT !.values = @ \o got[2]]

RECURSIVE AsciiLoop(_, _)
AsciiLoop(dat, lines) ==
    IF lines = <<>> \/ dat.panic THEN dat
    ELSE AsciiLoop(AsciiLine(dat, Head(lines)), Tail(lines))

\* read_ppm_ascii_file: re-reads the whole file line by line.
read_ppm_ascii_file(f, ppm_type) ==
    LET dat == AsciiLoop([ppm_type |-> ppm_type, width |-> 0, height |-> 0,
                          max_value |-> 0, values |-> <<>>,
                          skip_first_line |-> FALSE, panic |-> FALSE],
                         SplitLines(f, <<>>))
    IN [panic |-> dat.panic, values |-> dat.values]

\* --------------------------------------------------- binary data decoder
\* get_bit_at: <<ok, bit>>; Err(()) for n >= 8.
get_bit_at(input, n) ==
    IF n < 8 THEN <<TRUE, (input \div (2 ^ n)) % 2 # 0>> ELSE <<FALSE, FALSE>>

\* BitSamples with the bits taken from 0 up to 7 (the loop without .rev()).
BitSamples_ascending(byte) ==
    <<\A k \in 1..8 : get_bit_at(byte, k - 1)[1],
      [k \in 1..8 |-> Gray(IF get_bit_at(byte, k - 1)[2] THEN 0 ELSE 255)]>>

\* The eight samples of one bitmap byte, for i = 7 down to 0: <<ok, samples>>.
BitSamples(byte) ==
    <<\A k \in 1..8 : get_bit_at(byte, 8 - k)[1],
      [k \in 1..8 |-> Gray(IF get_bit_at(byte, 8 - k)[2] THEN 0 ELSE 255)]>>

\* Read::read into a buffer of n bytes at offset pos: the bytes available, at
\* most n (a regular file returns fewer only at its end).
ReadCount(f, pos, n) ==
    IF pos >= Len(f) THEN 0 ELSE IF Len(f) - pos < n THEN Len(f) - pos ELSE n

RECURSIVE PixmapLoop(_, _, _, _)
\* The P6 loop.  byte_for is the 3-byte buffer, which a short read only
\* partly overwrites.
PixmapLoop(f, pos, byte_for, img_data) ==
    LET n == ReadCount(f, pos, 3) IN
    IF n = 0 THEN img_data
    ELSE LET buf == [i \in 1..3 |-> IF i =< n THEN f[pos + i] ELSE byte_for[i]]
         IN PixmapLoop(f, pos + n, buf,
                       Append(img_data, PpmValue_new(buf[1], buf[2], buf[3])))

RECURSIVE GraymapLoop(_, _, _, _)
GraymapLoop(f, pos, max_value, img_data) ==
    IF ReadCount(f, pos, 1) = 0 THEN img_data
    ELSE GraymapLoop(f, pos + 1, max_value,
                     Append(img_data, Gray(ScaleSample(f[pos + 1], max_value))))

RECURSIVE BitmapLoop(_, _, _)
\* The P4 loop: <<ok, img_data>>; ok is FALSE when get_bit_at's unwrap panics.
BitmapLoop(f, pos, img_data) ==
    IF ReadCount(f, pos, 1) = 0 THEN <<TRUE, img_data>>
    ELSE LET s == BitSamples(f[pos + 1]) IN
         IF ~s[1] THEN <<FALSE, img_data>>
         ELSE BitmapLoop(f, pos + 1, img_data \o s[2])

\* read_ppm_binary_image_data: seeks to start_position and streams to the end.
read_ppm_binary_image_data(f, hdr, start_position) ==
    IF hdr.ppm_type = "P6"
    THEN [panic |-> FALSE, values |-> PixmapLoop(f, start_position, <<0, 0, 0>>, <<>>)]
    ELSE IF hdr.ppm_type = "P5"
    THEN [panic |-> FALSE, values |-> GraymapLoop(f, start_position, hdr.max_value, <<>>)]
    ELSE IF hdr.ppm_type = "P4"
    THEN LET r == BitmapLoop(f, start_position, <<>>)
         IN [panic |-> ~r[1], values |-> r[2]]
    ELSE [panic |-> FALSE, values |-> <<>>]

\* ------------------------------------------------------------ World
single_draw == TRUE

\* World::new with the latch already set.
World_new_latched == [single_draw |-> single_draw, has_been_drawn |-> TRUE]

World_new == [single_draw |-> single_draw, has_been_drawn |-> FALSE]

\* `as u8` of an i32: the low eight bits.
AsU8(v) == v % 256

\* The four bytes written for pixel i (0-based) from sample v.
Rgba(v) == <<AsU8(v.r), AsU8(v.g), AsU8(v.b), 255>>

\* World::draw without the early return on the latch: every call writes.
World_draw_unlatched(w, hdr, vals, buf) ==
    LET npix == Len(buf) \div 4
        nw == IF hdr.ppm_type = "P0" THEN 0
              ELSE IF Len(vals) < npix THEN Len(vals) ELSE npix
        done == hdr.ppm_type = "P0" \/ Len(vals) >= npix
    IN [world |-> IF done /\ w.single_draw /\ ~w.has_been_drawn
                  THEN [w EXCEPT !.has_been_drawn = TRUE] ELSE w,
        frame |-> [i \in 1..Len(buf) |->
                     IF (i - 1) \div 4 < nw
                     THEN Rgba(vals[(i - 1) \div 4 + 1])[((i - 1) % 4) + 1]
                     ELSE buf[i]],
        panic |-> ~done,
        written |-> nw,
        early |-> FALSE]

\* World::draw on the frame buffer buf.  chunks_exact_mut(4) visits the
\* Len(buf) \div 4 pixels in order; values[i] panics at the first pixel that has
\* no sample, after the pixels before it were written.  Returns the new world,
\* the new buffer, whether the call panicked, how many pixels it wrote and
\* whether it returned early on the latch.
World_draw(w, hdr, vals, buf) ==
    IF w.single_draw /\ w.has_been_drawn
    THEN [world |-> w, frame |-> buf, panic |-> FALSE, written |-> 0, early |-> TRUE]
    ELSE LET npix == Len(buf) \div 4
             nw == IF hdr.ppm_type = "P0" THEN 0
                   ELSE IF Len(vals) < npix THEN Len(vals) ELSE npix
             done == hdr.ppm_type = "P0" \/ Len(vals) >= npix
         IN [world |-> IF done /\ w.single_draw /\ ~w.has_been_drawn
                       THEN [w EXCEPT !.has_been_drawn = TRUE] ELSE w,
             frame |-> [i \in 1..Len(buf) |->
                          IF (i - 1) \div 4 < nw
                          THEN Rgba(vals[(i - 1) \div 4 + 1])[((i - 1) % 4) + 1]
                          ELSE buf[i]],
             panic |-> ~done,
             written |-> nw,
             early |-> FALSE]

\* ------------------------------------------------------------- main
\* The two tests of main's if / else-if that select the decoder.
UsesAsciiDecoder(t) == t = "P1" \/ t = "P2" \/ t = "P3"

\* The else-if test with P4 left out.
UsesBinaryDecoder_noP4(t) == t = "P6" \/ t = "P5"

UsesBinaryDecoder(t) == t = "P6" \/ t = "P5" \/ t = "P4"

\* Pixels::new(width, height): a zero-filled RGBA buffer.
NewFrame(w, h) == [i \in 1..(4 * w * h) |-> 0]

\* ------------------------------------------------------ the input files
\* The files the viewer is run on: each is a record with the bytes and, for
\* the properties, the parts it was assembled from.
MaxWs == 2
MaxComment == 2
MaxData == 4
MaxLines == 2
MaxTok == 6

SeqsUpTo(S, n) == UNION {[1..k -> S] : k \in 0..n}

RECURSIVE Dec(_)
\* The decimal digits of n >= 0.
Dec(n) == IF n < 10 THEN <<48 + n>> ELSE Dec(n \div 10) \o <<48 + (n % 10)>>

RECURSIVE Concat(_)
Concat(ss) == IF ss = <<>> THEN <<>> ELSE Head(ss) \o Concat(Tail(ss))

\* "P1" .. "P6"; "P7" is a tag the viewer does not know.
Tag(t) == <<80, 48 + t>>
TagNumbers == 1..7
TagIsBit(t) == t = 1 \/ t = 4
TagIsKnown(t) == t >= 1 /\ t =< 6

\* Runs of one to MaxWs whitespace bytes.
Seps == SeqsUpTo({SPACE, LF}, MaxWs) \ {<<>>}

IsNonzeroDecimal(s) ==
    /\ s # <<>>
    /\ \A i \in 1..Len(s) : IsDigit(s[i])
    /\ \E i \in 1..Len(s) : s[i] # 48

\* tag, s1, width, s2, height and, unless the tag is a bitmap's, s3 and the
\* maximum; then one LF.
HeaderBytes(t, s1, w, s2, h, s3, m) ==
    Tag(t) \o s1 \o w \o s2 \o h \o (IF TagIsBit(t) THEN <<>> ELSE s3 \o m) \o <<LF>>

MkFile(kind, t, hdr, data, plain, wellformed, comment, lines) ==
    [kind |-> kind, tag |-> t, bytes |-> hdr \o data, hdr_len |-> Len(hdr),
     data |-> data, plain |-> plain \o data, wellformed |-> wellformed,
     comment |-> comment, lines |-> lines]

\* "1 0 1" LF: three tokens as text, six bytes as binary data.
SomeData == <<49, 32, 48, 32, 49, 10>>

\* Headers that differ in the whitespace between the tokens.
HdrFiles ==
    {LET hdr == HeaderBytes(t, <<LF>>, Dec(3), s2, Dec(2), s3, Dec(255))
     IN MkFile("hdr", t, hdr, SomeData, hdr, TagIsKnown(t), "none", <<>>) :
       t \in TagNumbers, s2 \in Seps, s3 \in Seps}

\* Headers that differ in the tokens: numbers, a zero, a non-number.
TokTexts == {Dec(2), Dec(0), <<120>>, Dec(12)}

TokFiles ==
    {LET hdr == HeaderBytes(t, <<LF>>, w, <<SPACE>>, h, <<LF>>, m)
     IN MkFile("tok", t, hdr, SomeData, hdr,
               /\ TagIsKnown(t)
               /\ IsNonzeroDecimal(w) /\ IsNonzeroDecimal(h)
               /\ (TagIsBit(t) \/ IsNonzeroDecimal(m)),
               "none", <<>>) :
       t \in TagNumbers, w \in TokTexts, h \in TokTexts, m \in TokTexts}

\* Headers with one comment line, after the tag line or after the dimensions
\* line; plain is the same file without it.  The comment's text is made of
\* 'c', '7' and spaces.
CommentBodies == SeqsUpTo({99, 55, SPACE}, MaxComment)

CmtFiles ==
    {LET line == <<HASH>> \o body \o <<LF>>
         dims == Dec(3) \o <<SPACE>> \o Dec(2) \o <<LF>>
         last == IF TagIsBit(t) THEN <<>> ELSE Dec(255) \o <<LF>>
         hdr == IF at = "after_tag"
                THEN Tag(t) \o <<LF>> \o line \o dims \o last
                ELSE Tag(t) \o <<LF>> \o dims \o line \o last
         plain == Tag(t) \o <<LF>> \o dims \o last
     IN MkFile("cmt", t, hdr, SomeData, plain, TagIsKnown(t), at, <<>>) :
       t \in TagNumbers, body \in CommentBodies, at \in {"after_tag", "after_dims"}}

\* Binary files of a 2 x 1 image with every data region of up to MaxData bytes.
DataBytes == {0, 3, 128, 200}
MaxValues == {255, 100}

BinFiles ==
    {LET hdr == HeaderBytes(t, <<LF>>, Dec(2), <<SPACE>>, Dec(1), <<LF>>, Dec(m))
     IN MkFile("bin", t, hdr, d, hdr, TRUE, "none", <<>>) :
       t \in 4..6, m \in MaxValues, d \in SeqsUpTo(DataBytes, MaxData)}

\* Text files of a 2 x 1 image with up to MaxLines data lines; a line holds
\* the first n tokens of TokenCycle (repeated when n is larger), n =< MaxTok.
TokenCycle == <<300, 0, 1, 255, 0, 50, 7, 100>>
TokLine(n) == [i \in 1..n |-> TokenCycle[((i - 1) % Len(TokenCycle)) + 1]]
TokLines == {TokLine(n) : n \in 0..MaxTok}

\* A line of tokens as text: the numbers, one space between, then LF.
LineText(x) ==
    Concat([i \in 1..Len(x) |-> (IF i = 1 THEN <<>> ELSE <<SPACE>>) \o Dec(x[i])])
    \o <<LF>>

AscFiles ==
    {LET hdr == HeaderBytes(t, <<LF>>, Dec(2), <<SPACE>>, Dec(1), <<LF>>, Dec(m))
     IN MkFile("asc", t, hdr, Concat([i \in 1..Len(ls) |-> LineText(ls[i])]),
               hdr, TRUE, "none", ls) :
       t \in 1..3, m \in MaxValues, ls \in SeqsUpTo(TokLines, MaxLines)}

\* The pixmap of the specification's first test, 3 x 2, all samples on one line.
ExampleLine ==
    <<255, 0, 0, 0, 255, 0, 0, 0, 255, 255, 255, 0, 0, 255, 255, 255, 255, 255>>

\* Also: an empty file, a file of one byte, a graymap that ends after the
\* dimensions, two files that end after the tag line and a pixmap of width -2.
OtherFiles ==
    {MkFile("asc", 3, HeaderBytes(3, <<LF>>, Dec(3), <<SPACE>>, Dec(2), <<LF>>, Dec(255)),
            LineText(ExampleLine), <<>>, TRUE, "none", <<ExampleLine>>),
     MkFile("short", 0, <<>>, <<>>, <<>>, FALSE, "none", <<>>),
     MkFile("short", 0, <<80>>, <<>>, <<>>, FALSE, "none", <<>>),
     MkFile("short", 5, Tag(5) \o <<LF>> \o Dec(3) \o <<SPACE>> \o Dec(2) \o <<LF>>,
            <<>>, <<>>, FALSE, "none", <<>>),
     MkFile("short", 6, Tag(6) \o <<LF>>, <<>>, <<>>, FALSE, "none", <<>>),
     MkFile("short", 2, Tag(2) \o <<LF>>, <<>>, <<>>, FALSE, "none", <<>>),
     MkFile("short", 6,
            HeaderBytes(6, <<LF>>, <<45>> \o Dec(2), <<SPACE>>, Dec(1), <<LF>>, Dec(255)),
            SomeData, <<>>, FALSE, "none", <<>>)}

Files == HdrFiles \cup TokFiles \cup CmtFiles \cup BinFiles \cup AscFiles \cup OtherFiles

\* The sizes a resize event may carry.
SurfaceSizes == {<<1, 1>>, <<4, 3>>}

VARIABLES
    file,           \* the bytes of the file named on the command line
    given,          \* how the file was put together (read by the properties only)
    pc,             \* main's position
    header,         \* ppm.header
    values,         \* ppm.values
    byte_position,  \* the offset read_ppm_header returned
    tokens,         \* every number_byte read_ppm_header completed, in order
    ran,            \* the components main has run, in order
    world,          \* World: single_draw, has_been_drawn
    frame,          \* the frame buffer of Pixels
    surface_size,   \* the surface size of Pixels
    writes,         \* the number of draw calls that wrote a pixel
    completed,      \* whether some draw call that was not short-circuited returned
    skipped         \* whether some draw call was short-circuited by the latch

vars == <<file, given, pc, header, values, byte_position, tokens, ran, world,
          frame, surface_size, writes, completed, skipped>>

Init ==
    /\ given \in Files
    /\ file = given.bytes
    /\ pc = "start"
    /\ header = PPMHeader_new
    /\ values = <<>>
    /\ byte_position = 0
    /\ tokens = <<>>
    /\ ran = <<>>
    /\ world = World_new
    /\ frame = <<>>
    /\ surface_size = <<0, 0>>
    /\ writes = 0
    /\ completed = FALSE
    /\ skipped = FALSE

\* let (byte_position, header) = read_ppm_header(filename)
ReadHeader ==
    /\ pc = "start"
    /\ LET r == read_ppm_header(file) IN
         /\ header' = r.header
         /\ byte_position' = r.byte_position
         /\ tokens' = r.tokens
         /\ pc' = IF r.panic THEN "panicked_header" ELSE "header_done"
    /\ ran' = Append(ran, "read_ppm_header")
    /\ UNCHANGED <<file, given, values, world, frame, surface_size, writes, completed, skipped>>

\* The if branch: ppm.values = read_ppm_ascii_file(...)
DecodeAscii ==
    /\ pc = "header_done"
    /\ UsesAsciiDecoder(header.ppm_type)
    /\ LET r == read_ppm_ascii_file(file, header.ppm_type) IN
         /\ values' = r.values
         /\ pc' = IF r.panic THEN "panicked_decode" ELSE "decoded"
    /\ ran' = Append(ran, "read_ppm_ascii_file")
    /\ UNCHANGED <<file, given, header, byte_position, tokens, world, frame,
                   surface_size, writes, completed, skipped>>

\* The else-if branch: ppm.values = read_ppm_binary_image_data(...)
DecodeBinary ==
    /\ pc = "header_done"
    /\ ~UsesAsciiDecoder(header.ppm_type)
    /\ UsesBinaryDecoder(header.ppm_type)
    /\ LET r == read_ppm_binary_image_data(file, header, byte_position) IN
         /\ values' = r.values
         /\ pc' = IF r.panic THEN "panicked_decode" ELSE "decoded"
    /\ ran' = Append(ran, "read_ppm_binary_image_data")
    /\ UNCHANGED <<file, given, header, byte_position, tokens, world, frame,
                   surface_size, writes, completed, skipped>>

\* Neither test holds: main goes on with the empty ppm.values.
DecodeNone ==
    /\ pc = "header_done"
    /\ ~UsesAsciiDecoder(header.ppm_type)
    /\ ~UsesBinaryDecoder(header.ppm_type)
    /\ pc' = "decoded"
    /\ UNCHANGED <<file, given, header, values, byte_position, tokens, ran, world,
                   frame, surface_size, writes, completed, skipped>>

\* world.frame = Some(ppm), the window and Pixels::new(width, height): the
\* event loop starts with a zero-filled buffer.
StartLoop ==
    /\ pc = "decoded"
    /\ header.width >= 0 /\ header.height >= 0
    /\ frame' = NewFrame(header.width, header.height)
    /\ surface_size' = <<header.width, header.height>>
    /\ pc' = "loop"
    /\ UNCHANGED <<file, given, header, values, byte_position, tokens, ran, world,
                   writes, completed, skipped>>

\* The window or the surface cannot be created for a side that is not
\* positive: main ends before the event loop.
SurfaceFails ==
    /\ pc = "decoded"
    /\ header.width =< 0 \/ header.height =< 0
    /\ pc' = "exited"
    /\ UNCHANGED <<file, given, header, values, byte_position, tokens, ran, world,
                   frame, surface_size, writes, completed, skipped>>

\* Event::RedrawRequested: world.draw(pixels.get_frame()), then
\* pixels.render(), whose failure ends the loop.
RedrawRequested ==
    /\ pc = "loop"
    /\ LET d == World_draw(world, header, values, frame) IN
         /\ world' = d.world
         /\ frame' = d.frame
         /\ writes' = IF d.written > 0 THEN writes + 1 ELSE writes
         /\ completed' = (completed \/ (~d.panic /\ ~d.early))
         /\ skipped' = (skipped \/ d.early)
         /\ \E render_ok \in BOOLEAN :
              pc' = IF d.panic THEN "panicked_draw"
                    ELSE IF render_ok THEN "loop" ELSE "exited"
    /\ UNCHANGED <<file, given, header, values, byte_position, tokens, ran, surface_size>>

\* input.window_resized(): pixels.resize(size.width, size.height).
Resized ==
    /\ pc = "loop"
    /\ \E size \in SurfaceSizes : surface_size' = size
    /\ UNCHANGED <<file, given, pc, header, values, byte_position, tokens, ran, world,
                   frame, writes, completed, skipped>>

\* Escape pressed or the window closed: ControlFlow::Exit.
Quit ==
    /\ pc = "loop"
    /\ pc' = "exited"
    /\ UNCHANGED <<file, given, header, values, byte_position, tokens, ran, world,
                   frame, surface_size, writes, completed, skipped>>

Next ==
    \/ ReadHeader
    \/ DecodeAscii
    \/ DecodeBinary
    \/ DecodeNone
    \/ StartLoop
    \/ SurfaceFails
    \/ RedrawRequested
    \/ Resized
    \/ Quit

Spec == Init /\ [][Next]_vars

\* ------------------------------------------------------------ properties
\* main is past the decoder selection without a panic.
Decoded == pc \in {"decoded", "loop", "exited", "panicked_draw"}

\* The number in the file's tag when it is "P1" .. "P6", else 0.
TagOf ==
    IF Len(file) >= 2 /\ file[1] = 80 /\ file[2] >= 49 /\ file[2] =< 54
    THEN file[2] - 48 ELSE 0

\* The bytes the binary decoder streams: from byte_position to the end.
DataRegion == SubSeq(file, byte_position + 1, Len(file))

Black == [r |-> 0, g |-> 0, b |-> 0]
White == [r |-> 255, g |-> 255, b |-> 255]

\* The tokens of a line taken three at a time.
Triples(x) ==
    [k \in 1..(Len(x) \div 3) |-> [r |-> x[3 * k - 2], g |-> x[3 * k - 1], b |-> x[3 * k]]]

\* C1: for an ASCII pixmap whose data lines each carry a multiple of three
\* tokens, the decoded samples are the tokens of all data lines taken three at
\* a time, in order (six samples for the 18-token line of the 3 x 2 example).
C1_GroupsOfThree ==
    (/\ Decoded
     /\ given.kind = "asc"
     /\ TagOf = 3
     /\ \A i \in 1..Len(given.lines) : Len(given.lines[i]) % 3 = 0)
    => values = Concat([i \in 1..Len(given.lines) |-> Triples(given.lines[i])])

\* C2: for a well-formed header (known tag, nonzero decimal tokens, any
\* whitespace or comments before each token, one whitespace byte after the
\* last), the offset read_ppm_header returns is the index of the first byte
\* of pixel data.
C2_OffsetIsDataStart ==
    (ran # <<>> /\ given.wellformed) => byte_position = given.hdr_len

\* The tokens that hold at least one byte.
NonEmpty(toks) == SelectSeq(toks, LAMBDA t : t # <<>>)

\* C3: for a variant with a maximum, a comment line between the dimensions
\* line and the maximum line changes neither the header fields read nor the
\* bytes accumulated into tokens, compared with the same file without that
\* line.
C3_CommentIgnored ==
    (ran # <<>> /\ given.comment = "after_dims" /\ TagOf \in {2, 3, 5, 6})
    => /\ header = read_ppm_header(given.plain).header
       /\ NonEmpty(tokens) = NonEmpty(read_ppm_header(given.plain).tokens)

\* C4: the k-th completed token determines the k-th header field: the first
\* gives width, the second height and, for a variant with a maximum, the
\* third max_value, a token that is no number counting as zero.
C4_KthTokenKthField ==
    (ran # <<>> /\ given.kind = "tok")
    => /\ Len(tokens) >= 1 => header.width = ParseOrDefault(tokens[1])
       /\ Len(tokens) >= 2 => header.height = ParseOrDefault(tokens[2])
       /\ (Len(tokens) >= 3 /\ TagOf \notin {1, 4})
             => header.max_value = ParseOrDefault(tokens[3])

\* C5 as stated: whatever the tag, when the image reaches the presentation
\* loop the header tokenizer has run and then exactly one decoder.
C5_ExactlyOneDecoder ==
    pc = "loop"
    => \/ ran = <<"read_ppm_header", "read_ppm_ascii_file">>
       \/ ran = <<"read_ppm_header", "read_ppm_binary_image_data">>

\* C5 as amended: the header tokenizer runs first; for a tag P1..P3 exactly
\* the ASCII decoder follows, for a tag P4..P6 exactly the binary decoder, and
\* for any other tag no decoder runs and the sample sequence stays empty;
\* never both decoders.
C5_DecoderByTag ==
    Decoded
    => /\ TagOf \in 1..3 => ran = <<"read_ppm_header", "read_ppm_ascii_file">>
       /\ TagOf \in 4..6 => ran = <<"read_ppm_header", "read_ppm_binary_image_data">>
       /\ TagOf = 0 => (ran = <<"read_ppm_header">> /\ values = <<>>)

\* An unknown tag reached the presentation loop with no decoder run.
C5_Witness ==
    pc = "loop" /\ TagOf = 0 /\ ran = <<"read_ppm_header">> /\ header.ppm_type = "P0"

\* The byte of which the eight samples from 8 * (j - 1) + 1 on are the bits,
\* most significant first, a black sample standing for 1.
ByteOfSamples(j) ==
    LET bit(k) == IF values[8 * (j - 1) + k] = Black THEN 1 ELSE 0
    IN 128 * bit(1) + 64 * bit(2) + 32 * bit(3) + 16 * bit(4)
       + 8 * bit(5) + 4 * bit(6) + 2 * bit(7) + bit(8)

\* C6: a binary bitmap decodes to exactly eight samples per data byte, each
\* black or white, that spell the byte's bits from bit 7 down to bit 0 with
\* black for 1; nothing is trimmed whatever the width, and the decoder does
\* not panic on get_bit_at.
C6_BitmapEightPerByte ==
    /\ (TagOf = 4 /\ Len(ran) = 2) => pc # "panicked_decode"
    /\ (TagOf = 4 /\ Decoded)
         => /\ Len(values) = 8 * Len(DataRegion)
            /\ \A i \in 1..Len(values) : values[i] \in {Black, White}
            /\ \A j \in 1..Len(DataRegion) : ByteOfSamples(j) = DataRegion[j]

\* A bitmap of width 2 with two data bytes, the first one 128, was decoded.
C6_Witness ==
    /\ pc = "decoded" /\ TagOf = 4 /\ header.width = 2
    /\ DataRegion = <<128, 3>>
    /\ Len(values) = 16
    /\ values[1] = Black /\ values[2] = White /\ values[16] = Black

\* C7: every sample of a binary pixmap is three consecutive bytes of the data
\* region at the sample's own position, unchanged.
C7_PixmapPassThrough ==
    (TagOf = 6 /\ Decoded /\ given.kind = "bin")
    => \A i \in 1..Len(values) :
         /\ 3 * i =< Len(DataRegion)
         /\ values[i] = [r |-> DataRegion[3 * i - 2], g |-> DataRegion[3 * i - 1],
                         b |-> DataRegion[3 * i]]

\* C8: the latch is never reset, the samples never change once the loop runs,
\* and once a draw call has written the frame buffer no later event (redraw or
\* resize) writes it again or changes a byte of it.
C8_DrawOnceLatch ==
    [][/\ world.has_been_drawn => world'.has_been_drawn
       /\ pc = "loop" => values' = values
       /\ (pc = "loop" /\ writes >= 1) => (frame' = frame /\ writes' = writes)]_vars

\* After the frame was written once, a resize arrived and a later draw call
\* was short-circuited by the latch.
C8_Witness ==
    /\ pc = "loop" /\ writes = 1 /\ world.has_been_drawn /\ skipped
    /\ surface_size # <<header.width, header.height>>
    /\ Len(frame) > 0

InByteRange(v) == v >= 0 /\ v =< 255

\* C9: every channel of every decoded sample lies in 0..255 (stated for the
\* files whose header is the plain one, with the data region or the data
\* lines varied).
C9_SampleRange ==
    given.kind \in {"bin", "asc"} =>
    \A i \in 1..Len(values) :
        InByteRange(values[i].r) /\ InByteRange(values[i].g) /\ InByteRange(values[i].b)

\* C10 as stated: the latch is set only after a draw call wrote the samples
\* into the frame buffer.
C10_LatchOnlyAfterWrite == world.has_been_drawn => writes >= 1

\* C10 as amended: the latch is set only after a draw call that was not
\* short-circuited ran to its end; for a variant other than P0 that call
\* wrote every pixel of the frame buffer from the samples, for P0 it wrote
\* nothing and set the latch all the same.
C10_LatchOnlyAfterDraw ==
    world.has_been_drawn
    => /\ completed
       /\ header.ppm_type # "P0"
            => /\ writes = (IF Len(frame) >= 4 THEN 1 ELSE 0)
               /\ \A i \in 1..(Len(frame) \div 4) :
                    SubSeq(frame, 4 * i - 3, 4 * i)
                      = <<values[i].r % 256, values[i].g % 256, values[i].b % 256, 255>>
       /\ header.ppm_type = "P0"
            => (writes = 0 /\ \A i \in 1..Len(frame) : frame[i] = 0)

\* The latch is set for a P0 image with a frame buffer no draw call wrote.
C10_Witness ==
    /\ pc = "loop" /\ world.has_been_drawn /\ header.ppm_type = "P0"
    /\ writes = 0 /\ Len(frame) > 0
====
